---- MODULE Spec2Model ----
(***************************************************************************)
(* Hashing facade of the bun polyfills: the BaseHash update/digest        *)
(* sessions with their output encodings (crypto hash classes), the        *)
(* seeded-hash dispatcher bunHashProto, and the zighash wyhash adapter    *)
(* that stages its input in the WebAssembly instance's linear memory.     *)
(***************************************************************************)
EXTENDS Integers, Sequences, FiniteSets, TLC

\* ------------------------------------------------------------- bounds

\* longest byte sequence a session accumulates
MaxAcc == 2
\* longest ArrayBuffer handed to update or to a seeded hash
MaxBuf == 3
\* longest string (in code points) handed to update or to a seeded hash
MaxStr == 1
\* bytes of linear memory of the WebAssembly instance
ArenaSize == 2
\* largest seed handed to a seeded hash
MaxSeed == 1

\* ------------------------------------------------------ input values

CodePoints == {233}

RECURSIVE SeqsUpTo(_, _)
SeqsUpTo(S, n) ==
  IF n = 0 THEN {<<>>}
  ELSE LET shorter == SeqsUpTo(S, n - 1)
       IN shorter \cup {Append(s, x) : s \in {t \in shorter : Len(t) = n - 1}, x \in S}

Slice(s, off, len) == [i \in 1..len |-> s[off + i]]

RECURSIVE Concat(_)
Concat(ss) == IF ss = <<>> THEN <<>> ELSE Head(ss) \o Concat(Tail(ss))

RECURSIVE Sum(_)
Sum(s) == IF s = <<>> THEN 0 ELSE Head(s) + Sum(Tail(s))

\* TextEncoder.encode / the providers' string handling: UTF-8 of the code points
Utf8Char(cp) ==
  IF cp < 128 THEN <<cp>>
  ELSE <<192 + (cp \div 64), 128 + (cp % 64)>>

Utf8(str) == Concat([i \in 1..Len(str) |-> Utf8Char(str[i])])

\* the buffers tried: the prefixes of the byte pattern 07 C8 07 C8 ..., so
\* that neighbouring offsets hold different bytes
Buffers == {[i \in 1..n |-> IF i % 2 = 1 THEN 7 ELSE 200] : n \in 0..MaxBuf}

\* A StringOrBuffer argument: text, a whole ArrayBuffer / SharedArrayBuffer,
\* or a typed-array view [off, off+len) of an underlying buffer.
Inputs ==
  {[kind |-> "text", str |-> s, buf |-> <<>>, off |-> 0, len |-> 0] :
      s \in SeqsUpTo(CodePoints, MaxStr)}
  \cup
  {[kind |-> k, str |-> <<>>, buf |-> b, off |-> 0, len |-> Len(b)] :
      k \in {"ArrayBuffer", "SharedArrayBuffer"}, b \in Buffers}
  \cup
  {[kind |-> k, str |-> <<>>, buf |-> b, off |-> o, len |-> l] :
      k \in {"Uint8Array", "Uint16Array"},
      b \in Buffers, o \in 0..MaxBuf, l \in 0..MaxBuf}

IsView(x) == x.kind \in {"Uint8Array", "Uint16Array"}

ViewWidth(x) == IF x.kind = "Uint16Array" THEN 2 ELSE 1

WellFormed(x) ==
  IsView(x) => /\ x.off + x.len <= Len(x.buf)
               /\ x.off % ViewWidth(x) = 0
               /\ x.len % ViewWidth(x) = 0

\* the bytes the argument denotes
LogicalBytes(x) ==
  IF x.kind = "text" THEN Utf8(x.str) ELSE Slice(x.buf, x.off, x.len)

\* new Uint8Array(x.buffer): every byte of the underlying buffer
WholeBuffer(x) == x.buf

\* --------------------------------------------------- crypto sessions

VARIABLES
  endian,      \* os.endianness() of the host: "LE" or "BE"
  alg,         \* the hash class the session was constructed from, or "none"
  acc,         \* bytes the backend (#hash) has accumulated
  finalized,   \* the backend has produced its digest
  digestDone,  \* history: a digest call has returned on this session
  ret,         \* the last call on the session and how it ended
  dest         \* the typed array passed to the last digest(hashInto) call

Algorithms == {"MD4", "MD5", "SHA1", "SHA224", "SHA256", "SHA384", "SHA512", "SHA512_256"}

\* the classes' byteLength fields
ByteLength(a) ==
  CASE a = "SHA1" -> 20
    [] a = "MD4" -> 16
    [] a = "MD5" -> 16
    [] a = "SHA224" -> 28
    [] a = "SHA512" -> 64
    [] a = "SHA384" -> 48
    [] a = "SHA256" -> 32
    [] a = "SHA512_256" -> 32

AlgIndex(a) ==
  CASE a = "MD5" -> 0
    [] a = "MD4" -> 1
    [] a = "SHA1" -> 2
    [] a = "SHA224" -> 3
    [] a = "SHA256" -> 4
    [] a = "SHA384" -> 5
    [] a = "SHA512" -> 6
    [] a = "SHA512_256" -> 7

\* The hash primitive itself (nodecrypto.createHash(name) / md4.create()) is an
\* external collaborator: a fixed function from the algorithm and the
\* accumulated bytes to ByteLength(a) digest bytes.  MD5 of no input stands
\* for the digest 01 02 03 ... of the worked example.
Primitive(a, data) ==
  [i \in 1..ByteLength(a) |->
     (i + 59 * AlgIndex(a) + 37 * Sum(data) + 101 * Len(data)) % 256]

\* names the typed-array argument of digest may have
WideCtors == {"BigInt64Array", "BigUint64Array"}
GenericCtors == {"Uint8Array", "Uint16Array", "Uint32Array", "Float64Array"}
Ctors == WideCtors \cup GenericCtors

\* TypedArray.BYTES_PER_ELEMENT
BytesPerElement(c) ==
  CASE c = "Uint8Array" -> 1
    [] c = "Uint16Array" -> 2
    [] c = "Uint32Array" -> 4
    [] c \in {"Float64Array", "BigInt64Array", "BigUint64Array"} -> 8

\* byteLength of the destination arrays tried
DestCaps == {8, 24, 32, 72}

\* a destination's memory before the call: every byte 0xAA
DestFill(cap) == [i \in 1..cap |-> 170]

\* encodings the text renderers know, and the names tried
KnownEncodings == {"hex", "base64"}
EncodingNames == KnownEncodings \cup {"latin9", ""}

\* Buffer.toString('hex'): two hex digits per byte
HexOf(bytes) ==
  [k \in 1..(2 * Len(bytes)) |->
     IF k % 2 = 1 THEN bytes[(k + 1) \div 2] \div 16 ELSE bytes[k \div 2] % 16]

\* Buffer.toString('base64'): sextets, 64 standing for the padding '='
RECURSIVE Base64Of(_)
Base64Of(b) ==
  IF Len(b) = 0 THEN <<>>
  ELSE IF Len(b) = 1 THEN <<b[1] \div 4, (b[1] % 4) * 16, 64, 64>>
  ELSE IF Len(b) = 2
    THEN <<b[1] \div 4, (b[1] % 4) * 16 + (b[2] \div 16), (b[2] % 16) * 4, 64>>
  ELSE <<b[1] \div 4, (b[1] % 4) * 16 + (b[2] \div 16),
         (b[2] % 16) * 4 + (b[3] \div 64), b[3] % 64>>
       \o Base64Of(SubSeq(b, 4, Len(b)))

TextOf(bytes, enc) == IF enc = "hex" THEN HexOf(bytes) ELSE Base64Of(bytes)

\* what a backend call hands back
Thrown(e) == [t |-> "throw", err |-> e, bytes |-> <<>>, text |-> <<>>]
AsBuffer(b) == [t |-> "buffer", err |-> "", bytes |-> b, text |-> <<>>]
AsText(s) == [t |-> "text", err |-> "", bytes |-> <<>>, text |-> s]

\* nodecrypto Hash.digest: throws once finalized; an encoding it does not
\* know is treated as if none was given and a Buffer comes back
ProviderDigest(hasEnc, enc) ==
  IF finalized THEN Thrown("FinalizedSessionReuse")
  ELSE IF hasEnc /\ enc \in KnownEncodings
    THEN AsText(TextOf(Primitive(alg, acc), enc))
  ELSE AsBuffer(Primitive(alg, acc))

\* the digest function the MD4 constructor patches onto the js-md4 object:
\* hash.arrayBuffer() finalizes once and returns the same digest thereafter
MD4Digest(hasEnc, enc) ==
  LET buf == Primitive(alg, acc)
  IN IF hasEnc /\ enc # ""
       THEN IF enc \in KnownEncodings THEN AsText(TextOf(buf, enc))
            ELSE Thrown("UnknownEncoding")
       ELSE AsBuffer(buf)

HashImplDigest(hasEnc, enc) ==
  IF alg = "MD4" THEN MD4Digest(hasEnc, enc) ELSE ProviderDigest(hasEnc, enc)

\* byte.toString(16).padStart(2, '0'): the two hex digits of a byte
HexByte(byte) == <<byte \div 16, byte % 16>>

\* endianAwareInsert with the two hosts' branches exchanged
endianAwareInsertSwapped(arr, j, num) ==
  IF endian = "LE" THEN [arr EXCEPT ![j + 1] = num]
  ELSE [arr EXCEPT ![8 - j] = num]

\* endianAwareInsert: arr[7 - j] = num on a little-endian host, arr[j] = num
\* otherwise (arr is 1-indexed here)
endianAwareInsert(arr, j, num) ==
  IF endian = "LE" THEN [arr EXCEPT ![8 - j] = num]
  ELSE [arr EXCEPT ![j + 1] = num]

\* the inner loop over j: stops at the first byte past the digest's end
RECURSIVE FillLane(_, _, _, _)
FillLane(arr, digested, i, j) ==
  IF j = 8 \/ i + j >= Len(digested) THEN arr
  ELSE FillLane(endianAwareInsert(arr, j, HexByte(digested[i + j + 1])),
                digested, i, j + 1)

\* BigInt(`0x${bigintStrArr.join('')}`): the number the joined hex digits
\* denote, written as its 16 hex digits, most significant first
BigIntOfHex(arr) ==
  LET digits == Concat(arr)
  IN [k \in 1..(16 - Len(digits)) |-> 0] \o digits

\* storing a 64-bit element in a BigInt64Array / BigUint64Array: its eight
\* bytes in host order (a value of 2^63 or more keeps its bits in either array)
StoreLane(mem, lane, value) ==
  LET msb == [k \in 1..8 |-> value[2 * k - 1] * 16 + value[2 * k]]
  IN [a \in 1..Len(mem) |->
        IF a > 8 * lane /\ a <= 8 * lane + 8
          THEN IF endian = "LE" THEN msb[9 - (a - 8 * lane)] ELSE msb[a - 8 * lane]
          ELSE mem[a]]

\* the outer loop: for (i = 0; i < digested.byteLength; i += 8)
RECURSIVE PackLanes(_, _, _)
PackLanes(mem, digested, i) ==
  IF i >= Len(digested) THEN mem
  ELSE PackLanes(
         StoreLane(mem, i \div 8,
                   BigIntOfHex(FillLane(<<<<>>, <<>>, <<>>, <<>>, <<>>, <<>>, <<>>, <<>>>>,
                                        digested, i, 0))),
         digested, i + 8)

\* hashInto.set(new HashIntoTypedArray(digested.buffer, digested.byteOffset,
\* digested.byteLength / BYTES_PER_ELEMENT)): the element count is truncated
\* to an integer and that many elements are copied to the start of hashInto
SetElements(mem, digested, ctor) ==
  LET n == Len(digested) \div BytesPerElement(ctor)
  IN [a \in 1..Len(mem) |->
        IF a <= n * BytesPerElement(ctor) THEN digested[a] ELSE mem[a]]

\* the size check with <= for <
TooSmallOffByOne(cap) == cap <= ByteLength(alg)

\* the size check of digest(hashInto)
TooSmall(cap) == cap < ByteLength(alg)

\* digest(encoding) without the Buffer.isBuffer check
RejectsNothing(encoded) == FALSE

\* the check on the value the backend returned for digest(encoding)
RejectsBuffer(encoded) == encoded.t = "buffer"

NoArg == [mode |-> "none", enc |-> "", ctor |-> "", cap |-> 0]
TextArg(e) == [mode |-> "text", enc |-> e, ctor |-> "", cap |-> 0]
IntoArg(c, n) == [mode |-> "into", enc |-> "", ctor |-> c, cap |-> n]

DigestArgs ==
  {NoArg} \cup {TextArg(e) : e \in EncodingNames}
          \cup {IntoArg(c, n) : c \in Ctors, n \in DestCaps}

Outcome(kind, e, bytes, text, mem) ==
  [outcome |-> kind, err |-> e, bytes |-> bytes, text |-> text, mem |-> mem]

\* BaseHash.digest(encodingOrHashInto)
DigestOutcome(arg) ==
  LET before == DestFill(arg.cap)
  IN IF arg.mode = "text"
       THEN LET encoded == HashImplDigest(TRUE, arg.enc)
            IN IF encoded.t = "throw" THEN Outcome("throw", encoded.err, <<>>, <<>>, before)
               ELSE IF RejectsBuffer(encoded)
                 THEN Outcome("throw", "UnknownEncoding", <<>>, <<>>, before)
               ELSE Outcome("ok", "", encoded.bytes, encoded.text, before)
       ELSE LET digested == HashImplDigest(FALSE, "")
            IN IF digested.t = "throw"
                 THEN Outcome("throw", digested.err, <<>>, <<>>, before)
               ELSE IF arg.mode = "none"
                 THEN Outcome("ok", "", digested.bytes, <<>>, before)
               ELSE IF TooSmall(arg.cap)
                 THEN Outcome("throw", "BufferTooSmall", <<>>, <<>>, before)
               ELSE IF arg.ctor \in WideCtors
                 THEN Outcome("ok", "", <<>>, <<>>, PackLanes(before, digested.bytes, 0))
               ELSE Outcome("ok", "", <<>>, <<>>,
                            SetElements(before, digested.bytes, arg.ctor))

digest(arg) ==
  LET out == DigestOutcome(arg)
  IN /\ alg # "none"
     /\ ret' = [op |-> "digest", mode |-> arg.mode, enc |-> arg.enc,
                reuse |-> digestDone, live |-> ~finalized,
                outcome |-> out.outcome, err |-> out.err,
                bytes |-> out.bytes, text |-> out.text]
     /\ dest' = [ctor |-> arg.ctor, before |-> DestFill(arg.cap), mem |-> out.mem]
     \* the backend is finalized by the call unless the provider refused it
     /\ finalized' = TRUE
     /\ digestDone' = (digestDone \/ out.outcome = "ok")
     /\ UNCHANGED <<endian, alg, acc>>

\* what reaches the backend: BaseHash.update wraps an ArrayBuffer or
\* SharedArrayBuffer in a Uint8Array and passes anything else on; the MD4
\* update wrapper hands js-md4 a string as is and otherwise a Uint8Array of
\* the argument's whole underlying buffer
UpdateBytes(data) ==
  IF data.kind = "text" THEN Utf8(data.str)
  ELSE IF alg = "MD4" THEN WholeBuffer(data)
  ELSE LogicalBytes(data)

\* nodecrypto Hash.update throws once finalized; js-md4's update returns at
\* once when the object is finalized
UpdateThrows == alg # "MD4" /\ finalized

update(data) ==
  /\ alg # "none"
  /\ Len(acc) + Len(UpdateBytes(data)) <= MaxAcc
  /\ ret' = [op |-> "update", mode |-> "none", enc |-> "",
             reuse |-> digestDone, live |-> ~finalized,
             outcome |-> IF UpdateThrows THEN "throw" ELSE "ok",
             err |-> IF UpdateThrows THEN "FinalizedSessionReuse" ELSE "",
             bytes |-> <<>>, text |-> <<>>]
  /\ acc' = IF finalized THEN acc ELSE acc \o UpdateBytes(data)
  /\ UNCHANGED <<endian, alg, finalized, digestDone, dest>>

\* ----------------------------------------------- seeded hash functions

VARIABLES
  heap,        \* exports.memory: the linear memory of the zighash instance
  regions,     \* regions handed out by exports.alloc and not released
  freesInput,  \* whether exports.wyhash releases the region it is given
  call         \* the last seeded-hash call and how it ended

vars == <<endian, alg, acc, finalized, digestDone, ret, dest, heap, regions, freesInput, call>>

digestVars == <<endian, alg, acc, finalized, digestDone, ret, dest>>
hashVars == <<heap, regions, freesInput, call>>

Seeds == 0..MaxSeed

\* A hash primitive is an external collaborator: its value is the function
\* name applied to the bytes and the seed it was given.
Hashed(fn, bytes, seed) == [fn |-> fn, bytes |-> bytes, seed |-> seed]
NoValue == Hashed("", <<>>, 0)

Returned(fn, input, seed, value) ==
  [fn |-> fn, input |-> input, seed |-> seed, outcome |-> "ok", err |-> "",
   value |-> value, ptr |-> 0, size |-> 0, written |-> {}]

Raised(fn, input, seed, e) ==
  [Returned(fn, input, seed, NoValue) EXCEPT !.outcome = "throw", !.err = e]

\* [p, p+size) lies in linear memory and meets no region still held
Vacant(p, size) ==
  /\ p + size <= ArenaSize
  /\ \A r \in regions : p + size <= r.ptr \/ r.ptr + r.size <= p

\* exports.alloc of the instance: the lowest vacant block of the size asked
CanAlloc(size) == \E p \in 0..ArenaSize : Vacant(p, size)
alloc(size) == CHOOSE p \in 0..ArenaSize : Vacant(p, size) /\ \A q \in 0..(p - 1) : ~Vacant(q, size)

\* exports.wyhash(ptr, size, seed) reads size bytes of linear memory at ptr
ExportsWyhash(mem, ptr, size, seed) == Hashed("wyhash", Slice(mem, ptr, size), seed)

\* the Uint8Array allocBuffer copies from: over buf.buffer when buf is a
\* view, over buf itself otherwise (allocString passes the encoder's array,
\* which spans its whole buffer)
CopySource(input) ==
  IF input.kind = "text" THEN Utf8(input.str)
  ELSE IF IsView(input) THEN WholeBuffer(input)
  ELSE input.buf

\* buf.byteLength + +nullTerminate, nullTerminate being false for both paths
AllocSize(input) == Len(LogicalBytes(input))

\* zighash wyhash(input, seed): allocBuffer / allocString, then exports.wyhash
wyhash(input, seed) ==
  LET size == AllocSize(input)
      ptr == alloc(size)
      src == CopySource(input)
      \* an allocation of no bytes takes nothing from the arena
      region == IF size = 0 THEN {} ELSE {[ptr |-> ptr, size |-> size]}
  IN /\ CanAlloc(size)
     /\ IF ptr + Len(src) > ArenaSize
          \* u8heap.set past the end of memory: RangeError, nothing is
          \* written and exports.wyhash is never reached
          THEN /\ heap' = heap
               /\ regions' = regions \cup region
               /\ call' = [Raised("wyhash", input, seed, "RangeError")
                             EXCEPT !.ptr = ptr, !.size = size]
          ELSE /\ heap' = [a \in 1..ArenaSize |->
                             IF a > ptr /\ a <= ptr + Len(src) THEN src[a - ptr]
                             ELSE heap[a]]
               /\ regions' = IF freesInput THEN regions \ region
                             ELSE regions \cup region
               /\ call' = [Returned("wyhash", input, seed,
                                    ExportsWyhash(heap', ptr, size, seed))
                             EXCEPT !.ptr = ptr, !.size = size,
                                    !.written = {ptr + k : k \in 0..(Len(src) - 1)}]
     /\ UNCHANGED <<freesInput, digestVars>>

\* the bytes each branch of adler32 hands to the checksum
Adler32Bytes(data) ==
  IF data.kind = "text" THEN Utf8(data.str)
  ELSE IF data.kind \in {"ArrayBuffer", "SharedArrayBuffer"} THEN data.buf
  ELSE WholeBuffer(data)

adler32(data, seed) ==
  /\ call' = Returned("adler32", data, seed, Hashed("adler32", Adler32Bytes(data), seed))
  /\ UNCHANGED <<heap, regions, freesInput>>
  /\ UNCHANGED digestVars

\* crc32 takes a Uint8Array, an ArrayBuffer or a string and ignores the seed
Crc32Accepts(data) == data.kind \in {"Uint8Array", "ArrayBuffer", "text"}

crc32(data, seed) ==
  /\ call' = IF Crc32Accepts(data)
               THEN Returned("crc32", data, seed, Hashed("crc32", LogicalBytes(data), 0))
               ELSE Raised("crc32", data, seed, "unimplemented")
  /\ UNCHANGED <<heap, regions, freesInput>>
  /\ UNCHANGED digestVars

\* Fingerprint32 / Fingerprint64 of lib/farmhash
Fingerprint(fn, data) == Hashed(fn, LogicalBytes(data), 0)

cityHash32(data) ==
  /\ call' = Returned("cityHash32", data, 0, Fingerprint("cityHash32", data))
  /\ UNCHANGED <<heap, regions, freesInput>>
  /\ UNCHANGED digestVars

cityHash64(data) ==
  /\ call' = Returned("cityHash64", data, 0, Fingerprint("cityHash64", data))
  /\ UNCHANGED <<heap, regions, freesInput>>
  /\ UNCHANGED digestVars

\* the bytes each branch of murmur32v3 hands to murmur.x86.hash32
Murmur32Bytes(data) ==
  IF data.kind = "text" THEN Utf8(data.str)
  ELSE IF data.kind \in {"ArrayBuffer", "SharedArrayBuffer"} THEN data.buf
  ELSE WholeBuffer(data)

murmur32v3(data, seed) ==
  /\ call' = Returned("murmur32v3", data, seed,
                      Hashed("murmur32v3", Murmur32Bytes(data), seed))
  /\ UNCHANGED <<heap, regions, freesInput>>
  /\ UNCHANGED digestVars

murmur64v2(data, seed) ==
  /\ call' = Raised("murmur64v2", data, seed, "NotImplemented")
  /\ UNCHANGED <<heap, regions, freesInput>>
  /\ UNCHANGED digestVars

\* ------------------------------------------------------ specifications

NoCall == [op |-> "none", mode |-> "none", enc |-> "", reuse |-> FALSE, live |-> TRUE,
           outcome |-> "ok", err |-> "", bytes |-> <<>>, text |-> <<>>]

HashInputs == {x \in Inputs : WellFormed(x)}

\* new SHA1(), new MD4(), ...: the constructors hand BaseHash a provider
\* hash made by name, or (MD4) the patched js-md4 object
construct(a) ==
  /\ alg = "none"
  /\ alg' = a
  /\ acc' = <<>>
  /\ finalized' = FALSE
  /\ digestDone' = FALSE
  /\ UNCHANGED <<endian, ret, dest>>

Init ==
  /\ endian \in {"LE", "BE"}
  /\ alg = "none"
  /\ acc = <<>>
  /\ finalized = FALSE
  /\ digestDone = FALSE
  /\ ret = NoCall
  /\ dest = [ctor |-> "", before |-> <<>>, mem |-> <<>>]
  /\ heap = [a \in 1..ArenaSize |-> 0]
  /\ regions = {}
  /\ freesInput \in BOOLEAN
  /\ call = Returned("", [kind |-> "text", str |-> <<>>, buf |-> <<>>, off |-> 0, len |-> 0],
                     0, NoValue)

DigestNext ==
  \/ \E a \in Algorithms : construct(a) /\ UNCHANGED hashVars
  \/ \E data \in HashInputs : update(data) /\ UNCHANGED hashVars
  \/ \E arg \in DigestArgs : digest(arg) /\ UNCHANGED hashVars

HashNext ==
  \/ \E data \in HashInputs, seed \in Seeds : wyhash(data, seed)
  \/ \E data \in HashInputs, seed \in Seeds : adler32(data, seed)
  \/ \E data \in HashInputs, seed \in Seeds : crc32(data, seed)
  \/ \E data \in HashInputs : cityHash32(data)
  \/ \E data \in HashInputs : cityHash64(data)
  \/ \E data \in HashInputs, seed \in Seeds : murmur32v3(data, seed)
  \/ \E data \in HashInputs, seed \in Seeds : murmur64v2(data, seed)

Next == DigestNext \/ HashNext

\* one crypto session
SpecDigest == Init /\ [][DigestNext]_vars

\* the seeded-hash entry points
SpecHash == Init /\ [][HashNext]_vars

Spec == Init /\ [][Next]_vars

\* ------------------------------------------------------------- claims

DigestCall == ret.op = "digest"
DigestInto == DigestCall /\ ret.mode = "into"
Capacity == Len(dest.before)

\* element `lane` of a 64-bit typed array over mem, as its eight bytes from
\* the most significant (weight 256^7) to the least significant (weight 256^0)
LaneBytes(mem, lane) ==
  [k \in 1..8 |-> IF endian = "LE" THEN mem[8 * lane + 9 - k] ELSE mem[8 * lane + k]]

\* C1: once a digest call has returned on a session, every further digest
\* call on it (no argument, an encoding, a destination) fails with
\* FinalizedSessionReuse.
C1_DigestAfterDigestFails ==
  (DigestCall /\ ret.reuse) =>
    (ret.outcome = "throw" /\ ret.err = "FinalizedSessionReuse")

\* C2: an update call on a session on which digest has returned fails; it
\* does not return normally.
C2_UpdateAfterDigestFails ==
  (ret.op = "update" /\ ret.reuse) => ret.outcome = "throw"

WidePartial ==
  /\ DigestInto /\ ret.outcome = "ok"
  /\ dest.ctor \in WideCtors
  /\ ByteLength(alg) % 8 # 0

\* C3: in wide-lane mode with a digest length that is no multiple of 8, the
\* last lane holds the r residual bytes where a full lane would hold them
\* and zeros elsewhere: on a little-endian host residual byte j has weight
\* 256^j and the 8-r high-order bytes are zero; on a big-endian host residual
\* byte j is the j-th most significant byte and the 8-r low-order bytes are zero.
C3_PartialLanePlacement ==
  WidePartial =>
    LET n == ByteLength(alg)
        r == n % 8
        last == n \div 8
        lane == LaneBytes(dest.mem, last)
        d == Primitive(alg, acc)
    IN \A j \in 0..7 :
         IF endian = "LE"
           THEN lane[8 - j] = (IF j < r THEN d[8 * last + j + 1] ELSE 0)
           ELSE lane[j + 1] = (IF j < r THEN d[8 * last + j + 1] ELSE 0)

WideOk ==
  /\ DigestInto /\ ret.outcome = "ok"
  /\ dest.ctor \in WideCtors

\* C4: in wide-lane mode every fully populated lane k is the 64-bit number
\* made of digest bytes 8k..8k+7, byte j having weight 256^j on a
\* little-endian host and weight 256^(7-j) on a big-endian host.
C4_FullLanePacking ==
  WideOk =>
    LET d == Primitive(alg, acc)
    IN \A k \in 0..((ByteLength(alg) \div 8) - 1) :
         \A j \in 0..7 :
           IF endian = "LE"
             THEN LaneBytes(dest.mem, k)[8 - j] = d[8 * k + j + 1]
             ELSE LaneBytes(dest.mem, k)[j + 1] = d[8 * k + j + 1]

\* the worked example: bytes 01 02 03 04 05 06 07 08 packed on a
\* little-endian host give 0x0807060504030201
C4_Witness ==
  /\ WideOk /\ endian = "LE"
  /\ SubSeq(Primitive(alg, acc), 1, 8) = <<1, 2, 3, 4, 5, 6, 7, 8>>
  /\ LaneBytes(dest.mem, 0) = <<8, 7, 6, 5, 4, 3, 2, 1>>

\* C5 as stated: digest(destination) fails with BufferTooSmall exactly when
\* the destination's byte capacity is below the digest length, and then no
\* element of the destination is written.
C5_Original ==
  DigestInto =>
    /\ (ret.outcome = "throw" /\ ret.err = "BufferTooSmall")
         <=> Capacity < ByteLength(alg)
    /\ Capacity < ByteLength(alg) => dest.mem = dest.before

\* C5 amended: on a session whose backend is not yet finalized,
\* digest(destination) fails with BufferTooSmall exactly when the capacity
\* is below the digest length; on any session a BufferTooSmall failure
\* happens only with such a capacity, and a destination of such a capacity
\* is never written.
C5_BufferTooSmall ==
  DigestInto =>
    /\ ret.live =>
         ((ret.outcome = "throw" /\ ret.err = "BufferTooSmall")
            <=> Capacity < ByteLength(alg))
    /\ (ret.outcome = "throw" /\ ret.err = "BufferTooSmall")
         => Capacity < ByteLength(alg)
    /\ Capacity < ByteLength(alg) => (ret.outcome = "throw" /\ dest.mem = dest.before)

C5_Witness ==
  /\ DigestInto /\ ret.live
  /\ Capacity < ByteLength(alg)
  /\ ret.err = "BufferTooSmall"
  /\ dest.mem = dest.before

UnknownEncodingCall ==
  DigestCall /\ ret.mode = "text" /\ ret.enc \notin KnownEncodings

\* C6 as stated: for every algorithm, digest(encoding) with an encoding name
\* that is not recognized (the empty string included) fails with
\* UnknownEncoding.
C6_Original ==
  UnknownEncodingCall => (ret.outcome = "throw" /\ ret.err = "UnknownEncoding")

\* C6 amended: digest(encoding) with an unrecognized encoding name never
\* returns a value; on a session whose backend is not yet finalized it fails
\* with UnknownEncoding (a finalized provider session fails with the
\* provider's finalized error instead).
C6_UnknownEncoding ==
  UnknownEncodingCall =>
    /\ ret.outcome = "throw"
    /\ ret.live => ret.err = "UnknownEncoding"

C6_Witness ==
  /\ UnknownEncodingCall /\ ret.live
  /\ alg = "MD4" /\ ret.enc = ""
  /\ ret.err = "UnknownEncoding"

Implemented == {"wyhash", "adler32", "crc32", "cityHash32", "cityHash64", "murmur32v3"}

\* C7: every implemented seeded hash returns a value that depends only on
\* the input's logical bytes (and the seed it honours): the same bytes given
\* as text, as a whole buffer or as a view of part of a buffer hash alike.
C7_LogicalBytesOnly ==
  call.fn \in Implemented =>
    /\ call.outcome = "ok"
    /\ call.value = Hashed(call.fn, LogicalBytes(call.input),
                           IF call.fn \in {"crc32", "cityHash32", "cityHash64"}
                             THEN 0 ELSE call.seed)

\* C8: a wyhash call releases the region it allocated by the time it ends:
\* after a call no region of the arena is still held.  (Stated for an
\* instance whose exports.wyhash releases the region it is handed; one that
\* does not leaves every region held, the adapter calling no release.)
C8_RegionReleased ==
  (freesInput /\ call.fn = "wyhash") => regions = {}

\* C9: digest(destination) into a destination that is not a 64-bit lane
\* array, is large enough, and whose element width does not divide the
\* digest length fails with MisalignedBufferWidth.
C9_MisalignedWidthFails ==
  (/\ DigestInto /\ ret.live
   /\ dest.ctor \in GenericCtors
   /\ Capacity >= ByteLength(alg)
   /\ ByteLength(alg) % BytesPerElement(dest.ctor) # 0)
  => (ret.outcome = "throw" /\ ret.err = "MisalignedBufferWidth")

\* C10: every byte a wyhash call writes into the arena lies inside the
\* region [ptr, ptr+size) its own allocation returned, and the size handed
\* to the compute primitive is the number of bytes written.
C10_WritesInsideRegion ==
  (call.fn = "wyhash" /\ call.outcome = "ok") =>
    /\ call.written \subseteq {call.ptr + k : k \in 0..(call.size - 1)}
    /\ Cardinality(call.written) = call.size

====
